---------------------------- MODULE Spec2Model ----------------------------
(***************************************************************************)
(* State-machine model of the diet tracker in src/app.py: the three ORM    *)
(* tables (UserConfig, FoodTemplate, DailyRecord), the NutrientCalculator  *)
(* arithmetic and the form-handling routes.                                *)
(*                                                                         *)
(* Numbers.  The program computes with Python floats.  The model uses      *)
(* exact fixed-point integers in hundredths (Scale units per 1.0): the     *)
(* string "1.5" parses to 150, a weight of 100 g is 10000.  The form       *)
(* inputs are chosen so that every product and every division by 100 the   *)
(* program performs is exact in hundredths; NaN, infinities and binary     *)
(* rounding error are outside the model.  round(x, 1) is modelled as       *)
(* round-half-even to a multiple of 0.1, which is what Python does on the  *)
(* values that occur here (ties only at exactly representable .25/.75).    *)
(*                                                                         *)
(* Requests.  One action per route; an action is the whole handler, from   *)
(* reading the form to the commit and the response.  Changes made to ORM   *)
(* objects that are not committed are discarded when the request ends      *)
(* (the scoped session is removed at teardown), so a handler that fails    *)
(* leaves the tables as they were.  The timestamp columns (created_at,     *)
(* updated_at) and the free-text notes are not modelled.  A GET of a form   *)
(* route renders the form and changes nothing; the actions are the POSTs.  *)
(***************************************************************************)
EXTENDS Integers, FiniteSets, Sequences, TLC

VARIABLES
    initialized,    \* db.create_all() has run (init_database, then app.run)
    user_config,    \* table UserConfig: set of rows
    food_template,  \* table FoodTemplate: set of rows
    daily_record,   \* table DailyRecord: set of rows
    today,          \* what date.today() returns
    response,       \* the response to the last request
    snapshot,       \* history: record id -> ratios its template had at creation
    commits,        \* number of committed changes so far
    limit           \* number of committed changes the run may make

vars == <<initialized, user_config, food_template, daily_record, today,
          response, snapshot, commits, limit>>

tables == <<user_config, food_template, daily_record>>

-----------------------------------------------------------------------------
(* Bounds of the model *)

MaxCommits == 3        \* committed changes in a run of Spec
MaxFormCommits == 1    \* committed changes in a run of SpecForms
MaxDay == 2            \* calendar days a run spans

-----------------------------------------------------------------------------
(* Numbers and parsing *)

Scale == 100

Missing == "<missing>"      \* the key is not in request.form
None == "<None>"            \* Python None / SQL NULL

\* float(s): the strings the forms submit and their values in hundredths
FloatStrings == {"0", "1.5", "-50", "75", "100"}

float(s) ==
    CASE s = "0" -> 0
      [] s = "1.5" -> 150
      [] s = "-50" -> -50 * Scale
      [] s = "75" -> 75 * Scale
      [] s = "100" -> 100 * Scale

\* int(s): decimal numerals of the row ids
IdString == <<"1", "2", "3", "4", "5", "6", "7", "8", "9", "10", "11", "12">>

IntStrings == {IdString[i] : i \in 1..Len(IdString)}

int(s) == CHOOSE i \in 1..Len(IdString) : IdString[i] = s

\* request.form[k] followed by float(): what it raises, or "ok"
ReadFloat(form, k) ==
    IF form[k] = Missing THEN "KeyError"
    ELSE IF form[k] \notin FloatStrings THEN "ValueError"
    ELSE "ok"

\* request.form[k] alone
ReadKey(form, k) == IF form[k] = Missing THEN "KeyError" ELSE "ok"

\* the first exception raised by a sequence of statements
RECURSIVE FirstFailure(_)
FirstFailure(outcomes) ==
    IF outcomes = <<>> THEN "ok"
    ELSE IF Head(outcomes) # "ok" THEN Head(outcomes)
    ELSE FirstFailure(Tail(outcomes))

Mul(a, b) == (a * b) \div Scale

Max(a, b) == IF a >= b THEN a ELSE b

\* n/d rounded to the nearest integer, ties to even (d > 0)
RoundHalfEven(n, d) ==
    LET q == n \div d
        r == n % d
    IN  IF 2 * r < d THEN q
        ELSE IF 2 * r > d THEN q + 1
        ELSE IF q % 2 = 0 THEN q ELSE q + 1

\* round(x, 1) of a value in hundredths
round1(x) == 10 * RoundHalfEven(x, 10)

-----------------------------------------------------------------------------
(* Tables *)

Nutrients == {"carb", "protein", "fat"}
Keys == {"carb", "protein", "fat", "calories"}

\* integer primary key: the largest id in the table plus one
NextId(rows) ==
    IF rows = {} THEN 1
    ELSE (CHOOSE i \in {r.id : r \in rows} : \A r \in rows : r.id <= i) + 1

\* Model.query.get(id) is not None
Exists(rows, id) == \E r \in rows : r.id = id

\* Model.query.get(id), when the row exists
Get(rows, id) == CHOOSE r \in rows : r.id = id

\* Model.query.first(), when the table has a row
First(rows) == CHOOSE r \in rows : \A q \in rows : r.id <= q.id

\* a nullable Float column: NULL is the empty set, a value v is {v}
Null == {}
Some(v) == {v}

DefaultConfig ==
    [id |-> 1, weight |-> 60 * Scale, carb_per_kg |-> 3 * Scale,
     protein_per_kg |-> 150, fat_per_kg |-> 80]

Template(id, name, c, p, f) ==
    [id |-> id, name |-> name, carb_ratio |-> c * Scale,
     protein_ratio |-> p * Scale, fat_ratio |-> f * Scale, calories |-> Null]

sample_templates ==
    { Template(1, "rice", 75, 7, 1),
      Template(2, "chicken breast", 0, 23, 2),
      Template(3, "egg", 1, 13, 11),
      Template(4, "fried rice", 40, 20, 10) }

-----------------------------------------------------------------------------
(* NutrientCalculator *)

calculate_daily_goals(cfg) ==
    [n \in Nutrients |->
        CASE n = "carb" -> Mul(cfg.weight, cfg.carb_per_kg)
          [] n = "protein" -> Mul(cfg.weight, cfg.protein_per_kg)
          [] n = "fat" -> Mul(cfg.weight, cfg.fat_per_kg)]

calculate_nutrient_amount_fat4(record) ==
    LET carb_g == Mul(record.weight, record.carb_ratio) \div 100
        protein_g == Mul(record.weight, record.protein_ratio) \div 100
        fat_g == Mul(record.weight, record.fat_ratio) \div 100
    IN  [carb |-> carb_g, protein |-> protein_g, fat |-> fat_g,
         calories |-> (carb_g * 4) + (protein_g * 4) + (fat_g * 4)]

calculate_nutrient_amount(record) ==
    LET carb_g == Mul(record.weight, record.carb_ratio) \div 100
        protein_g == Mul(record.weight, record.protein_ratio) \div 100
        fat_g == Mul(record.weight, record.fat_ratio) \div 100
    IN  [carb |-> carb_g, protein |-> protein_g, fat |-> fat_g,
         calories |-> (carb_g * 4) + (protein_g * 4) + (fat_g * 9)]

RecordsOnAnyDate(rows, target_date) == rows

\* DailyRecord.query.filter_by(date=target_date).all()
RecordsOn(rows, target_date) == {r \in rows : r.date = target_date}

\* the loop over the records, in id order, adding each key into total
RECURSIVE SumLoop(_, _)
SumLoop(rows, total) ==
    IF rows = {} THEN total
    ELSE LET record == First(rows)
             nutrients == calculate_nutrient_amount(record)
         IN  SumLoop(rows \ {record},
                     [key \in Keys |-> total[key] + nutrients[key]])

get_daily_summary(target_date) ==
    SumLoop(RecordsOn(daily_record, target_date), [key \in Keys |-> 0])

RemainingUnclamped(goal, consumed) == round1(goal - consumed)

\* max(round(goal - consumed, 1), 0)
Remaining(goal, consumed) == Max(round1(goal - consumed), 0)

\* round(min((consumed / goal) * 100, 100) if goal > 0 else 0, 1), in hundredths
Percentage(consumed, goal) ==
    IF goal > 0
    THEN IF consumed > goal THEN 100 * Scale
         ELSE 10 * RoundHalfEven(consumed * 10 * Scale, goal)
    ELSE 0

get_progress(cfg, daily_summary) ==
    LET goals == calculate_daily_goals(cfg)
    IN  [nutrient \in Nutrients |->
            LET consumed == daily_summary[nutrient]
                goal == goals[nutrient]
            IN  [consumed |-> round1(consumed),
                 goal |-> round1(goal),
                 percentage |-> Percentage(consumed, goal),
                 remaining |-> Remaining(goal, consumed),
                 is_over |-> consumed > goal]]

-----------------------------------------------------------------------------
(* Requests and responses *)

NoFlash == [category |-> None, message |-> None]

NoResponse == [op |-> None, status |-> None, flash |-> NoFlash]

Flash(category, message) == [category |-> category, message |-> message]

Redirect(op, flash) == [op |-> op, status |-> "302", flash |-> flash]
Render(op, flash) == [op |-> op, status |-> "200", flash |-> flash]
BadRequest(op) == [op |-> op, status |-> "400", flash |-> NoFlash]
NotFound(op) == [op |-> op, status |-> "404", flash |-> NoFlash]

\* a form with one field left out or filled with text that is no number
Corrupt(f) == {[f EXCEPT ![k] = b] : k \in DOMAIN f, b \in {Missing, "abc"}}

ConfigValid ==
    [weight : {"1.5"}, carb_per_kg : {"0", "1.5"},
     protein_per_kg : {"1.5"}, fat_per_kg : {"1.5"}]

ConfigForms == ConfigValid \cup UNION {Corrupt(f) : f \in ConfigValid}

\* the template ids the requests name: the first sample template and the
\* templates added later
TemplateIdsUsed ==
    {t.id : t \in {t \in food_template :
                      t.id = 1 \/ t.id > Cardinality(sample_templates)}}

\* ... and an id that no row has
TemplateIdsTried == TemplateIdsUsed \cup {NextId(food_template)}

RecordIdsUsed == {r.id : r \in daily_record}

RecordIdsTried == RecordIdsUsed \cup {NextId(daily_record)}

RecordValid ==
    [food_name : {"lunch"}, weight : {"100"},
     template_id : {IdString[i] : i \in TemplateIdsUsed},
     carb_ratio : {"0"}, protein_ratio : {"0"}, fat_ratio : {"0"},
     time : {"12:30"}]
    \cup
    [food_name : {"lunch"}, weight : {"100"},
     template_id : {"custom"},
     carb_ratio : {"-50", "75"}, protein_ratio : {"75"}, fat_ratio : {"75"},
     time : {"12:30"}]

RecordBase ==
    {f \in RecordValid : f.template_id = "1" \/ f.carb_ratio = "75"}

RecordForms ==
    RecordValid \cup UNION {Corrupt(f) : f \in RecordBase}
    \cup {[f EXCEPT !.template_id = IdString[NextId(food_template)]] :
             f \in RecordBase}

TemplateValid ==
    [name : {"oats"}, carb_ratio : {"-50", "0"}, protein_ratio : {"0"},
     fat_ratio : {"75"}, calories : {""}]
    \cup
    [name : {"oats"}, carb_ratio : {"75"}, protein_ratio : {"0"},
     fat_ratio : {"75"}, calories : {"1.5"}]

TemplateBase == {f \in TemplateValid : f.carb_ratio = "0"}

TemplateForms == TemplateValid \cup UNION {Corrupt(f) : f \in TemplateBase}

\* the optional field: if request.form.get('calories'): float(...)
ReadCalories(form) ==
    IF form.calories \in {Missing, ""} THEN "ok"
    ELSE IF form.calories \notin FloatStrings THEN "ValueError"
    ELSE "ok"

\* datetime.strptime(request.form.get('time', now), '%H:%M')
TimeStrings == {"12:30"}

\* datetime.now().strftime('%H:%M')
Now == "12:30"

ReadTime(form) ==
    IF form.time = Missing \/ form.time \in TimeStrings THEN "ok" ELSE "ValueError"

-----------------------------------------------------------------------------
(* init_database *)

NeedsDefaultsAlways(rows) == TRUE

\* UserConfig.query.first() is None
NeedsDefaults(rows) == rows = {}

init_database ==
    /\ initialized' = TRUE
    /\ IF NeedsDefaults(user_config)
       THEN /\ user_config' = user_config \cup
                    {[DefaultConfig EXCEPT !.id = NextId(user_config)]}
            /\ food_template' = food_template \cup
                    {[t EXCEPT !.id = NextId(food_template) - 1 + t.id] :
                        t \in sample_templates}
       ELSE UNCHANGED <<user_config, food_template>>
    /\ response' = NoResponse
    /\ UNCHANGED <<daily_record, today, snapshot, commits, limit>>

\* the calendar day changes
NextDay ==
    /\ today < MaxDay
    /\ today' = today + 1
    /\ UNCHANGED <<initialized, tables, response, snapshot, commits, limit>>

-----------------------------------------------------------------------------
(* /config *)

config_post(form) ==
    LET cfg == First(user_config)
        e == FirstFailure(<<ReadFloat(form, "weight"),
                            ReadFloat(form, "carb_per_kg"),
                            ReadFloat(form, "protein_per_kg"),
                            ReadFloat(form, "fat_per_kg")>>)
    IN  /\ initialized
        /\ IF e = "ok"
           THEN /\ commits < limit
                /\ user_config' = (user_config \ {cfg}) \cup
                      {[cfg EXCEPT !.weight = float(form.weight),
                                   !.carb_per_kg = float(form.carb_per_kg),
                                   !.protein_per_kg = float(form.protein_per_kg),
                                   !.fat_per_kg = float(form.fat_per_kg)]}
                /\ commits' = commits + 1
                /\ response' = Redirect("config", Flash("success", "config updated"))
           ELSE /\ UNCHANGED <<user_config, commits>>
                /\ response' = IF e = "ValueError"
                               THEN Render("config", Flash("error", "invalid number"))
                               ELSE BadRequest("config")
        /\ UNCHANGED <<initialized, food_template, daily_record, today, snapshot, limit>>

-----------------------------------------------------------------------------
(* /add_record *)

CopyTemplateRatiosSwapped(template) ==
    [carb_ratio |-> template.protein_ratio,
     protein_ratio |-> template.carb_ratio,
     fat_ratio |-> template.fat_ratio]

\* carb_ratio = template.carb_ratio, and so on
CopyTemplateRatios(template) ==
    [carb_ratio |-> template.carb_ratio,
     protein_ratio |-> template.protein_ratio,
     fat_ratio |-> template.fat_ratio]

\* if template_id and template_id != 'custom'
UsesTemplate(form) ==
    form.template_id \notin {Missing, ""} /\ form.template_id # "custom"

\* the statements of the try block, in order, to the first that raises
RecordFailure(form) ==
    FirstFailure(
        <<ReadKey(form, "food_name"), ReadFloat(form, "weight")>>
        \o (IF UsesTemplate(form)
            THEN <<IF form.template_id \in IntStrings THEN "ok" ELSE "ValueError",
                   IF form.template_id \in IntStrings
                      /\ ~Exists(food_template, int(form.template_id))
                   THEN "AttributeError" ELSE "ok">>
            ELSE <<ReadFloat(form, "carb_ratio"),
                   ReadFloat(form, "protein_ratio"),
                   ReadFloat(form, "fat_ratio")>>)
        \o <<ReadTime(form)>>)

\* DailyRecord(date=date.today(), ...) of a form that passed
NewRecord(form) ==
    LET ratios ==
            IF UsesTemplate(form)
            THEN CopyTemplateRatios(Get(food_template, int(form.template_id)))
            ELSE [carb_ratio |-> float(form.carb_ratio),
                  protein_ratio |-> float(form.protein_ratio),
                  fat_ratio |-> float(form.fat_ratio)]
    IN  [id |-> NextId(daily_record),
         date |-> today,
         time |-> IF form.time = Missing THEN Now ELSE form.time,
         food_name |-> form.food_name,
         weight |-> float(form.weight),
         carb_ratio |-> ratios.carb_ratio,
         protein_ratio |-> ratios.protein_ratio,
         fat_ratio |-> ratios.fat_ratio,
         template_id |-> IF form.template_id \in {"custom", Missing}
                         THEN None ELSE form.template_id]

add_record_post(form) ==
    LET e == RecordFailure(form)
        record == NewRecord(form)
    IN  /\ initialized
        /\ IF e = "ok"
           THEN /\ commits < limit
                /\ daily_record' = daily_record \cup {record}
                /\ snapshot' =
                      IF UsesTemplate(form)
                      THEN LET template == Get(food_template, int(form.template_id))
                           IN  [i \in DOMAIN snapshot \cup {record.id} |->
                                  IF i = record.id
                                  THEN [carb_ratio |-> template.carb_ratio,
                                        protein_ratio |-> template.protein_ratio,
                                        fat_ratio |-> template.fat_ratio]
                                  ELSE snapshot[i]]
                      ELSE [i \in DOMAIN snapshot \ {record.id} |-> snapshot[i]]
                /\ commits' = commits + 1
                /\ response' = Redirect("add_record", Flash("success", "record added"))
           ELSE /\ UNCHANGED <<daily_record, snapshot, commits>>
                /\ response' = IF e = "ValueError"
                               THEN Render("add_record", Flash("error", "invalid number"))
                               ELSE Render("add_record", Flash("error", "add failed"))
        /\ UNCHANGED <<initialized, user_config, food_template, today, limit>>

-----------------------------------------------------------------------------
(* /add_template *)

RatioSumNeverTooLarge(carb_ratio, protein_ratio, fat_ratio) == FALSE

\* total_ratio > 100
RatioSumTooLarge(carb_ratio, protein_ratio, fat_ratio) ==
    carb_ratio + protein_ratio + fat_ratio > 100 * Scale

RatiosFailure(form) ==
    FirstFailure(<<ReadFloat(form, "carb_ratio"),
                   ReadFloat(form, "protein_ratio"),
                   ReadFloat(form, "fat_ratio")>>)

add_template_post(form) ==
    LET e1 == RatiosFailure(form)
        over == e1 = "ok" /\ RatioSumTooLarge(float(form.carb_ratio),
                                               float(form.protein_ratio),
                                               float(form.fat_ratio))
        e == IF e1 # "ok" THEN e1
             ELSE FirstFailure(<<ReadKey(form, "name"), ReadCalories(form)>>)
        template ==
            [id |-> NextId(food_template),
             name |-> form.name,
             carb_ratio |-> float(form.carb_ratio),
             protein_ratio |-> float(form.protein_ratio),
             fat_ratio |-> float(form.fat_ratio),
             calories |-> IF form.calories \in {Missing, ""} THEN Null
                          ELSE Some(float(form.calories))]
    IN  /\ initialized
        /\ IF over
           THEN /\ UNCHANGED <<food_template, commits>>
                /\ response' = Render("add_template", Flash("error", "ratio sum over 100"))
           ELSE IF e = "ok"
           THEN /\ commits < limit
                /\ food_template' = food_template \cup {template}
                /\ commits' = commits + 1
                /\ response' = Redirect("add_template", Flash("success", "template added"))
           ELSE /\ UNCHANGED <<food_template, commits>>
                /\ response' = IF e = "ValueError"
                               THEN Render("add_template", Flash("error", "invalid number"))
                               ELSE Render("add_template", Flash("error", "add failed"))
        /\ UNCHANGED <<initialized, user_config, daily_record, today, snapshot, limit>>

-----------------------------------------------------------------------------
(* /edit_template/<id> *)

edit_template_post(id, form) ==
    LET e == FirstFailure(<<ReadKey(form, "name"),
                            ReadFloat(form, "carb_ratio"),
                            ReadFloat(form, "protein_ratio"),
                            ReadFloat(form, "fat_ratio"),
                            ReadCalories(form)>>)
    IN  /\ initialized
        /\ IF ~Exists(food_template, id)
           THEN /\ UNCHANGED <<food_template, commits>>
                /\ response' = NotFound("edit_template")
           ELSE IF e = "ok"
           THEN LET template == Get(food_template, id)
                IN  /\ commits < limit
                    /\ food_template' = (food_template \ {template}) \cup
                          {[template EXCEPT
                              !.name = form.name,
                              !.carb_ratio = float(form.carb_ratio),
                              !.protein_ratio = float(form.protein_ratio),
                              !.fat_ratio = float(form.fat_ratio),
                              !.calories = IF form.calories \in {Missing, ""}
                                           THEN @ ELSE Some(float(form.calories))]}
                    /\ commits' = commits + 1
                    /\ response' = Redirect("edit_template",
                                            Flash("success", "template updated"))
           ELSE /\ UNCHANGED <<food_template, commits>>
                /\ response' = Render("edit_template", Flash("error", "update failed"))
        /\ UNCHANGED <<initialized, user_config, daily_record, today, snapshot, limit>>

-----------------------------------------------------------------------------
(* /delete_record/<id> and /delete_template/<id> *)

RowsBelow(rows, id) == {r \in rows : r.id < id}

\* the table after db.session.delete(Model.query.get(id))
RowsWithout(rows, id) == {r \in rows : r.id # id}

delete_record(id) ==
    /\ initialized
    /\ IF ~Exists(daily_record, id)
       THEN /\ UNCHANGED <<daily_record, snapshot, commits>>
            /\ response' = NotFound("delete_record")
       ELSE /\ commits < limit
            /\ daily_record' = RowsWithout(daily_record, id)
            /\ snapshot' = [i \in DOMAIN snapshot \ {id} |-> snapshot[i]]
            /\ commits' = commits + 1
            /\ response' = Redirect("delete_record", Flash("success", "record deleted"))
    /\ UNCHANGED <<initialized, user_config, food_template, today, limit>>

delete_template(id) ==
    /\ initialized
    /\ IF ~Exists(food_template, id)
       THEN /\ UNCHANGED <<food_template, commits>>
            /\ response' = NotFound("delete_template")
       ELSE /\ commits < limit
            /\ food_template' = RowsWithout(food_template, id)
            /\ commits' = commits + 1
            /\ response' = Redirect("delete_template",
                                    Flash("success", "template deleted"))
    /\ UNCHANGED <<initialized, user_config, daily_record, today, snapshot, limit>>

-----------------------------------------------------------------------------
(* The program *)

\* the database file does not exist yet
Empty ==
    /\ initialized = FALSE
    /\ user_config = {}
    /\ food_template = {}
    /\ daily_record = {}
    /\ today = 1
    /\ response = NoResponse
    /\ snapshot = <<>>
    /\ commits = 0

\* Spec: the requests are well formed (every field a number, every id a row)
Next ==
    \/ init_database
    \/ NextDay
    \/ \E form \in ConfigValid : config_post(form)
    \/ \E form \in RecordValid : add_record_post(form)
    \/ \E form \in TemplateValid : add_template_post(form)
    \/ \E id \in TemplateIdsUsed : \E form \in TemplateValid :
          edit_template_post(id, form)
    \/ \E id \in RecordIdsUsed : delete_record(id)
    \/ \E id \in TemplateIdsUsed : delete_template(id)

Init == Empty /\ limit = MaxCommits

Spec == Init /\ [][Next]_vars

\* SpecForms: any request, also with fields missing or not numeric and with
\* ids of no row; shorter runs
NextForms ==
    \/ init_database
    \/ NextDay
    \/ \E form \in ConfigForms : config_post(form)
    \/ \E form \in RecordForms : add_record_post(form)
    \/ \E form \in TemplateForms : add_template_post(form)
    \/ \E id \in TemplateIdsTried : \E form \in TemplateForms :
          edit_template_post(id, form)
    \/ \E id \in RecordIdsTried : delete_record(id)
    \/ \E id \in TemplateIdsTried : delete_template(id)

InitForms == Empty /\ limit = MaxFormCommits

SpecForms == InitForms /\ [][NextForms]_vars

-----------------------------------------------------------------------------
(* Properties *)

Dates == 1..MaxDay

Ratios(row) ==
    [carb_ratio |-> row.carb_ratio, protein_ratio |-> row.protein_ratio,
     fat_ratio |-> row.fat_ratio]

Coefficient(cfg, n) ==
    CASE n = "carb" -> cfg.carb_per_kg
      [] n = "protein" -> cfg.protein_per_kg
      [] n = "fat" -> cfg.fat_per_kg

\* the progress of day d under the stored config
ProgressOn(d) == get_progress(First(user_config), get_daily_summary(d))

\* C1: a record made from a template holds the ratios the template had when
\* the record was made, whatever was done to the template since
C1_RatiosAreSnapshot ==
    \A r \in daily_record :
        r.id \in DOMAIN snapshot => Ratios(r) = snapshot[r.id]

\* a record made from a template whose template has other ratios by now
C1_Witness ==
    \E r \in daily_record :
        /\ r.id \in DOMAIN snapshot
        /\ response.op = "edit_template"
        /\ \E t \in food_template :
              IdString[t.id] = r.template_id /\ Ratios(t) # Ratios(r)

\* C2: every percentage get_progress returns is between 0 and 100
C2_PercentageInRange ==
    initialized =>
        \A d \in Dates : \A n \in Nutrients :
            /\ ProgressOn(d)[n].percentage >= 0
            /\ ProgressOn(d)[n].percentage <= 100 * Scale

\* C3: grams = weight * ratio / 100 for each macro, and
\* calories = 4 * carb + 4 * protein + 9 * fat; 100 g at 75 % carb is 75 g
\* of carb, worth 300 calories
C3_NutrientAmount ==
    \A r \in daily_record :
        LET a == calculate_nutrient_amount(r)
        IN  /\ a.carb * 100 * Scale = r.weight * r.carb_ratio
            /\ a.protein * 100 * Scale = r.weight * r.protein_ratio
            /\ a.fat * 100 * Scale = r.weight * r.fat_ratio
            /\ a.calories = 4 * a.carb + 4 * a.protein + 9 * a.fat
            /\ (r.weight = 100 * Scale /\ r.carb_ratio = 75 * Scale
                    => a.carb = 75 * Scale /\ 4 * a.carb = 300 * Scale)

\* the record of the example, with fat in it
C3_Witness ==
    \E r \in daily_record :
        r.weight = 100 * Scale /\ r.carb_ratio = 75 * Scale /\ r.fat_ratio > 0

\* the sum of one key over the stored records of day d, taken id by id
RECURSIVE TotalUpTo(_, _, _)
TotalUpTo(id, d, key) ==
    IF id = 0 THEN 0
    ELSE TotalUpTo(id - 1, d, key)
         + (IF \E r \in daily_record : r.id = id /\ r.date = d
            THEN calculate_nutrient_amount(Get(daily_record, id))[key]
            ELSE 0)

\* C4: the summary of a day is the per-key sum over exactly the stored
\* records of that day, and all zeros when the day has none
C4_SummaryIsSum ==
    \A d \in Dates :
        /\ \A key \in Keys :
              get_daily_summary(d)[key] =
                  TotalUpTo(NextId(daily_record) - 1, d, key)
        /\ ((~\E r \in daily_record : r.date = d)
                => get_daily_summary(d) = [key \in Keys |-> 0])

\* after a deletion: today has no record left, an earlier day has
C4_Witness ==
    /\ response.op = "delete_record"
    /\ response.status = "302"
    /\ ~\E r \in daily_record : r.date = today
    /\ \E r \in daily_record :
          r.date # today /\ get_daily_summary(r.date)["calories"] # 0

\* C5 as stated: goal = weight * coefficient, remaining = max(goal - consumed, 0),
\* is_over = (consumed > goal), percentage = 0 when goal = 0
C5_AsStated ==
    initialized =>
        \A d \in Dates : \A n \in Nutrients :
            LET cfg == First(user_config)
                consumed == get_daily_summary(d)[n]
                goal == Mul(cfg.weight, Coefficient(cfg, n))
                p == ProgressOn(d)[n]
            IN  /\ p.goal = goal
                /\ p.remaining = Max(goal - consumed, 0)
                /\ p.is_over = (consumed > goal)
                /\ (goal = 0 => p.percentage = 0)

\* C5 as amended: the figures are rounded to one decimal; goal is
\* round(weight * coefficient, 1), remaining is max(round(goal - consumed, 1), 0)
\* of the unrounded goal and consumed, is_over = (consumed > goal),
\* percentage = 0 when goal = 0
C5_Rounded ==
    initialized =>
        \A d \in Dates : \A n \in Nutrients :
            LET cfg == First(user_config)
                consumed == get_daily_summary(d)[n]
                goal == Mul(cfg.weight, Coefficient(cfg, n))
                p == ProgressOn(d)[n]
            IN  /\ p.goal = round1(goal)
                /\ p.remaining = Max(round1(goal - consumed), 0)
                /\ p.is_over = (consumed > goal)
                /\ (goal = 0 => p.percentage = 0)

\* one macro has goal 0 and shows 0 %, another is over its goal and shows
\* the capped 100 %, with a goal that rounding changes
C5_Witness ==
    /\ initialized
    /\ \E n \in Nutrients :
          /\ Mul(First(user_config).weight, Coefficient(First(user_config), n)) = 0
          /\ ProgressOn(today)[n].percentage = 0
    /\ \E n \in Nutrients :
          /\ ProgressOn(today)[n].is_over
          /\ ProgressOn(today)[n].percentage = 100 * Scale
          /\ ProgressOn(today)[n].goal #
                Mul(First(user_config).weight, Coefficient(First(user_config), n))

\* C6: a stored record stays as it is in every step, except that
\* delete_record on its id removes it, and nothing else
C6_RecordsImmutable ==
    [][\A r \in daily_record :
          \/ r \in daily_record'
          \/ delete_record(r.id) /\ daily_record' = daily_record \ {r}]_vars

\* a record was deleted and another record is still there
C6_Witness ==
    /\ response.op = "delete_record"
    /\ response.status = "302"
    /\ daily_record # {}

NotNumeric(form, k) == form[k] = Missing \/ form[k] \notin FloatStrings

InvalidConfig(form) == \E k \in DOMAIN form : NotNumeric(form, k)

InvalidRecord(form) ==
    \/ form.food_name = Missing
    \/ NotNumeric(form, "weight")
    \/ UsesTemplate(form) /\ form.template_id \notin IntStrings
    \/ ~UsesTemplate(form)
       /\ \E k \in {"carb_ratio", "protein_ratio", "fat_ratio"} : NotNumeric(form, k)

InvalidTemplate(form) ==
    \/ form.name = Missing
    \/ \E k \in {"carb_ratio", "protein_ratio", "fat_ratio"} : NotNumeric(form, k)
    \/ form.calories \notin {Missing, ""} /\ form.calories \notin FloatStrings

\* the form is rendered again with an error flashed, and nothing is stored
Rejected ==
    /\ response'.status = "200"
    /\ response'.flash.category = "error"
    /\ UNCHANGED tables

\* C7: a POST of a form with a field missing or not numeric is answered with
\* the form and a flash message, and changes no table
C7_InvalidFormFlashed ==
    [][/\ \A form \in ConfigForms :
             InvalidConfig(form) /\ config_post(form) => Rejected
       /\ \A form \in RecordForms :
             InvalidRecord(form) /\ add_record_post(form) => Rejected
       /\ \A form \in TemplateForms :
             InvalidTemplate(form) /\ add_template_post(form) => Rejected
       /\ \A id \in TemplateIdsUsed : \A form \in TemplateForms :
             InvalidTemplate(form) /\ edit_template_post(id, form) => Rejected
      ]_vars

RatioSum(row) == row.carb_ratio + row.protein_ratio + row.fat_ratio

\* C8: add_template with a ratio sum over 100 stores nothing and leaves the
\* templates as they are; a template it stores has a ratio sum of at most 100
C8_SumOver100Rejected ==
    [][\A form \in TemplateForms :
          add_template_post(form) =>
              /\ (RatiosFailure(form) = "ok"
                  /\ float(form.carb_ratio) + float(form.protein_ratio)
                       + float(form.fat_ratio) > 100 * Scale
                      => food_template' = food_template)
              /\ \A t \in food_template' \ food_template :
                      RatioSum(t) <= 100 * Scale
      ]_vars

\* add_template has just refused a form for its ratio sum
C8_Witness ==
    response = Render("add_template", Flash("error", "ratio sum over 100"))

\* C9: each ratio of each stored template is between 0 and 100
C9_TemplateRatiosInRange ==
    \A t \in food_template :
        /\ 0 <= t.carb_ratio /\ t.carb_ratio <= 100 * Scale
        /\ 0 <= t.protein_ratio /\ t.protein_ratio <= 100 * Scale
        /\ 0 <= t.fat_ratio /\ t.fat_ratio <= 100 * Scale

\* C10: once init_database has run there is exactly one UserConfig row; a
\* config POST keeps it the one row, and a repeated init_database changes no
\* table
C10_ConfigSingleton ==
    [][/\ initialized' => Cardinality(user_config') = 1
       /\ initialized /\ init_database => UNCHANGED tables
       /\ \A form \in ConfigForms :
             config_post(form) =>
                 {c.id : c \in user_config'} = {c.id : c \in user_config}
      ]_vars

\* init_database has run again after the config was changed
C10_Witness ==
    /\ initialized
    /\ response = NoResponse
    /\ commits > 0
    /\ First(user_config).weight # DefaultConfig.weight

=============================================================================
